---- MODULE Spec2Model ----
(***************************************************************************)
(* Transactional session scope of techtalk-db-session.                     *)
(*                                                                         *)
(* The model follows src/src/session.py (db_scope, keyword `using`) and    *)
(* src/src/session_context.py (db_context, keyword `bind`).  Both modules  *)
(* define get_db, a generator that opens a Session and a transaction and   *)
(* yields the session, and _SessionScopeMaker, a subclass of               *)
(* contextlib._GeneratorContextManager that is a context manager and a     *)
(* decorator.  A run of the model is a run of one of the two modules       *)
(* (variable `variant`): a sequence of with-blocks and decorated calls,    *)
(* possibly nested, each walking through                                   *)
(*   enter -> assign -> bind -> body -> exit -> finalize -> close -> done. *)
(*                                                                         *)
(* The exceptions of the code are named after the specification:           *)
(*   ConfigurationError   RuntimeError('Define global engine ...')         *)
(*   AnnotationError      RuntimeError('... must have `self` ...' /        *)
(*                        '... has many ...' / '... must define ...')      *)
(*   SentinelError        RuntimeError('... mast have `Session` argument   *)
(*                        as keyword argument ...')                        *)
(*   DirectInjectionError RuntimeError('Do not pass session ...')          *)
(*   BindingConflictError RuntimeError('... already has `Session` ...')    *)
(*   UnsupportedAnnotationFormError   NotImplementedError                  *)
(*   NameError            raised by inspect.signature(func, eval_str=True) *)
(*                        on a string annotation that names nothing        *)
(*   AttributeError       raised by delattr / by self.kwds, self.func      *)
(*                        after enter                                      *)
(*   RuntimeError         contextlib's "generator didn't stop"             *)
(*   TeardownError        the exception Session.rollback raises when the   *)
(*                        database fails during rollback                   *)
(*   E                    the exception raised by a body                   *)
(***************************************************************************)
EXTENDS Integers, Sequences, FiniteSets, TLC

VARIABLES
    mode,       \* what the run exercises: one thread, two threads, a failing rollback
    variant,    \* which module this run exercises
    engine,     \* the module attribute `engine` (process-wide default)
    mgrs,       \* every _SessionScopeMaker object: templates first, then per call
    handles,    \* every Session opened by get_db, in order of creation
    events,     \* what happened to the sessions, in order: open/commit/rollback/close,
                \* with the call that did it and whether the operation succeeded
    attr,       \* the Session-annotated attribute of each service instance
    calls,      \* every with-block and decorated call started so far
    stacks,     \* per thread, the ids of its active calls, innermost last
    bonus       \* the script 08-summary_bonus.py: what db_session made of each
                \* function, the sessions of its get_db and the wrapper calls

vars == <<mode, variant, engine, mgrs, handles, events, attr, calls, stacks, bonus>>

----------------------------------------------------------------------------
(* Bounds *)

MaxCalls == 2
MaxDepth == 2

----------------------------------------------------------------------------
(* Values *)

Variants == {"session", "session_context"}

NoEngine == "None"
Engines == {"E1", "E2"}
EngineVals == Engines \cup {NoEngine}
\* the values the program assigns to the module attribute `engine`
Defaults == {NoEngine, "E1"}

\* value of the provider keyword in kwds: not passed, passed as None, or an engine
KwAbsent == "absent"
Explicits == {KwAbsent, NoEngine, "E2"}

NoInst == "no_instance"
NoExc == "none"
NoHandle == 0

\* The functions a decorator is applied to.
\*   marked:   number of parameters whose annotation == Session
\*   sentinel: the marked parameter is keyword-only with default Ellipsis
\*   strAnn:   some annotation is a string: the session marker itself when marked
\*             is 0 (postponed evaluation), another parameter's when marked is 1
\*   self:     the first parameter is named self
\*   unres:    a string annotation names something the module of the function
\*             does not define (a name imported under TYPE_CHECKING)
Targets ==
    [ fn_db   |-> [marked |-> 1, sentinel |-> TRUE,  strAnn |-> FALSE, self |-> FALSE, unres |-> FALSE],
      fn_none |-> [marked |-> 0, sentinel |-> FALSE, strAnn |-> FALSE, self |-> FALSE, unres |-> FALSE],
      fn_two  |-> [marked |-> 2, sentinel |-> TRUE,  strAnn |-> FALSE, self |-> FALSE, unres |-> FALSE],
      fn_pos  |-> [marked |-> 1, sentinel |-> FALSE, strAnn |-> FALSE, self |-> FALSE, unres |-> FALSE],
      fn_str  |-> [marked |-> 0, sentinel |-> TRUE,  strAnn |-> TRUE,  self |-> FALSE, unres |-> FALSE],
      m_attr  |-> [marked |-> 0, sentinel |-> FALSE, strAnn |-> FALSE, self |-> TRUE, unres |-> FALSE],
      m_db    |-> [marked |-> 1, sentinel |-> TRUE,  strAnn |-> FALSE, self |-> TRUE, unres |-> FALSE],
      m_two   |-> [marked |-> 2, sentinel |-> TRUE,  strAnn |-> FALSE, self |-> TRUE, unres |-> FALSE],
      m_pos   |-> [marked |-> 1, sentinel |-> FALSE, strAnn |-> FALSE, self |-> TRUE, unres |-> FALSE],
      fn_mix  |-> [marked |-> 1, sentinel |-> TRUE,  strAnn |-> TRUE,  self |-> FALSE, unres |-> FALSE],
      fn_str_unres |->
                  [marked |-> 0, sentinel |-> TRUE,  strAnn |-> TRUE,  self |-> FALSE, unres |-> TRUE],
      fn_mix_unres |->
                  [marked |-> 1, sentinel |-> TRUE,  strAnn |-> TRUE,  self |-> FALSE, unres |-> TRUE] ]

\* The objects passed as first positional argument.
\*   marked: number of attributes annotated with Session
\*   strAnn: the class annotations are strings
\*   truthy: bool(instance)
Instances ==
    [ svc    |-> [marked |-> 1, strAnn |-> FALSE, truthy |-> TRUE],
      falsy  |-> [marked |-> 1, strAnn |-> FALSE, truthy |-> FALSE],
      bare   |-> [marked |-> 0, strAnn |-> FALSE, truthy |-> TRUE],
      dual   |-> [marked |-> 2, strAnn |-> FALSE, truthy |-> TRUE],
      strsvc |-> [marked |-> 0, strAnn |-> TRUE,  truthy |-> TRUE] ]

\* instances that can receive the session attribute
Bindable == {"svc", "falsy"}

\* the attribute holds a session id, or nothing, or something the body put there
AttrAbsent == 0
AttrForeign == -1

\* what the caller passes for the marked keyword
KwPassed == {"absent", "falsy", "truthy"}
\* what the wrapped function finds in the marked parameter when it is the caller's
\* value and not a session
CallerValue == -2

\* The decorator declarations of the program: @db_scope / @db_scope(using=...)
\* (@db_context / @db_context(bind=...)) applied to a target.
DeclSeq ==
    << [explicit |-> KwAbsent, target |-> "fn_db"],
       [explicit |-> "E2",     target |-> "fn_db"],
       [explicit |-> NoEngine, target |-> "fn_db"],
       [explicit |-> KwAbsent, target |-> "fn_none"],
       [explicit |-> KwAbsent, target |-> "fn_two"],
       [explicit |-> KwAbsent, target |-> "fn_pos"],
       [explicit |-> KwAbsent, target |-> "fn_str"],
       [explicit |-> KwAbsent, target |-> "m_attr"],
       [explicit |-> KwAbsent, target |-> "m_db"],
       [explicit |-> KwAbsent, target |-> "m_two"],
       [explicit |-> KwAbsent, target |-> "m_pos"],
       [explicit |-> KwAbsent, target |-> "fn_mix"],
       [explicit |-> KwAbsent, target |-> "fn_str_unres"],
       [explicit |-> KwAbsent, target |-> "fn_mix_unres"] >>

NDecls == Len(DeclSeq)

\* The calls the program makes: <<target, first positional argument, marked keyword>>.
CallShapes ==
    { <<"fn_db", NoInst, k>> : k \in KwPassed }
    \cup { <<"fn_none", NoInst, "absent">>, <<"fn_two", NoInst, "absent">>,
           <<"fn_pos", NoInst, "absent">>, <<"fn_str", NoInst, "absent">> }
    \cup { <<"m_attr", i, "absent">> : i \in DOMAIN Instances }
    \cup { <<"m_db", "svc", "absent">>, <<"m_two", "svc", "absent">>,
           <<"m_pos", "svc", "absent">>, <<"fn_mix", NoInst, "absent">>,
           <<"fn_str_unres", NoInst, "absent">>, <<"fn_mix_unres", NoInst, "absent">> }

\* The runs: a single thread; two threads calling plain functions and methods; a
\* single thread against a database whose rollback can fail.
Modes == {"plain", "threads", "faults"}

\* The functions given to db_session of 08-summary_bonus.py, by the keys of
\* __annotations__ whose value is Session ("return" is the return annotation).
\*   f_none: def f_none(age: int)
\*   get_some_things_from_db: def get_some_things_from_db(age: int, name: str,
\*                                                         db: Session = ...)
\*   f_two: def f_two(a: Session = ..., b: Session = ...)
\*   f_three: def f_three(a: Session = ..., b: Session = ..., c: Session = ...)
\*   f_ret: def f_ret(db: Session = ...) -> Session
BonusTargets ==
    [ f_none                  |-> {},
      get_some_things_from_db |-> {"db"},
      f_two                   |-> {"a", "b"},
      f_three                 |-> {"a", "b", "c"},
      f_ret                   |-> {"db", "return"} ]

NotDecorated == "not decorated"
NoAttrName == "none"

\* the script before any decoration
NoBonus ==
    [decorated |-> [f \in DOMAIN BonusTargets |-> NotDecorated],
     attr_name |-> [f \in DOMAIN BonusTargets |-> NoAttrName],
     sessions |-> <<>>,
     runs |-> <<>>]

\* the calls made in a two-thread run: the decorated function, the attribute-bound
\* method and the method it calls from its body (get_extra)
ThreadShapes ==
    { <<"fn_db", NoInst, "absent">>, <<"m_attr", "svc", "absent">>,
      <<"m_db", "svc", "absent">> }

Shapes(md) == IF md = "threads" THEN ThreadShapes ELSE CallShapes

\* the provider keyword given to db_scope() in with-blocks and manual exits
ScopeExplicits(md) == IF md = "threads" THEN {KwAbsent} ELSE Explicits

----------------------------------------------------------------------------
(* Pure functions of the two modules *)

\* a scope that resolves the process-wide default when it is built, not when it is
\* entered
scope_kwds_eager(v, explicit) ==
    IF explicit \in Engines THEN explicit
    ELSE IF engine \in Engines THEN engine
    ELSE IF v = "session" THEN NoEngine
    ELSE explicit

\* db_scope(func, using=...) builds kwds=dict(using=using): the key is always there,
\* None when not passed.  db_context(func, **session_kwargs) builds
\* kwds=session_kwargs: the key `bind` is there only when passed.
scope_kwds(v, explicit) ==
    IF v = "session"
    THEN (IF explicit = KwAbsent THEN NoEngine ELSE explicit)
    ELSE explicit

\* get_db with the precedence inverted: the process-wide default wins over the
\* explicit provider.
get_db_default_first(v, kw, eng) ==
    IF eng \in Engines THEN eng
    ELSE IF kw = KwAbsent THEN NoEngine ELSE kw

\* get_db up to the session creation: the provider the session is opened against,
\* NoEngine when get_db raises ConfigurationError.
\*   session.py:          using = using or engine
\*   session_context.py:  session_kwargs.setdefault('bind', engine)
get_db(v, kw, eng) ==
    IF v = "session"
    THEN (IF kw \in Engines THEN kw ELSE eng)
    ELSE (IF kw = KwAbsent THEN eng ELSE kw)

Err(e) == [kind |-> "error", exc |-> e]
ToParam == [kind |-> "param", exc |-> NoExc]
ToInstance == [kind |-> "instance", exc |-> NoExc]

\* hasattr(instance, session_attr)
hasattr(a, inst) == inst \in Bindable /\ a[inst] # AttrAbsent

\* session_context._get_session_annotation: the error it raises, NoExc when it
\* returns the single name.  (session._get_session_annotation returns the set of
\* names, whose size is the field `marked`.)
get_session_annotation(obj) ==
    IF obj.strAnn THEN "UnsupportedAnnotationFormError"
    ELSE IF obj.marked = 0 THEN "AnnotationError"
    ELSE IF obj.marked > 1 THEN "AnnotationError"
    ELSE NoExc

assign_session_to_argument(v, tg, kw) ==
    LET ann == IF v = "session" THEN NoExc ELSE get_session_annotation(tg)
    IN  IF ann # NoExc THEN Err(ann)
        ELSE IF ~tg.sentinel THEN Err("SentinelError")
        ELSE IF kw = "truthy" THEN Err("DirectInjectionError")
        ELSE ToParam

\* _assign_session_to_instance without the hasattr guard
assign_session_to_instance_unguarded(v, inst, present) ==
    LET obj == Instances[inst]
    IN  IF obj.strAnn /\ v # "session" THEN Err("UnsupportedAnnotationFormError")
        ELSE IF obj.marked # 1 THEN Err("AnnotationError")
        ELSE ToInstance

assign_session_to_instance(v, inst, present) ==
    LET obj == Instances[inst]
        ann == IF v = "session"
               THEN (IF obj.marked = 0 THEN "AnnotationError"
                     ELSE IF obj.marked > 1 THEN "AnnotationError"
                     ELSE NoExc)
               ELSE get_session_annotation(obj)
    IN  IF ann # NoExc THEN Err(ann)
        ELSE IF present THEN Err("BindingConflictError")
        ELSE ToInstance

\* kwargs.setdefault(arg_name, session): a value supplied by the caller stays
injected_value_setdefault(kw, h) == IF kw = "absent" THEN h ELSE CallerValue

\* _assign_session_to_argument, last statement: kwargs[arg_name] = session
injected_value(kw, h) == h

\* _assign_session that looks at the first positional argument before the
\* parameters, in both modules
assign_session_self_first(v, tg, inst, kw, present) ==
    IF tg.self /\ inst # NoInst
    THEN assign_session_to_instance(v, inst, present)
    ELSE assign_session_to_argument(v, tg, kw)

\* _assign_session: where the session goes, or the error raised.
\*   session.py:          annotated parameter first, else args[0]
\*   session_context.py:  inspect.signature(func, eval_str=True) evaluates the
\*                        string annotations first (NameError when one names
\*                        nothing), then the argument bound to `self`, else the
\*                        parameter
assign_session(v, tg, inst, kw, present) ==
    IF v = "session"
    THEN IF tg.marked > 0
         THEN (IF tg.marked > 1 THEN Err("AnnotationError")
               ELSE assign_session_to_argument(v, tg, kw))
         ELSE (IF inst = NoInst THEN Err("AnnotationError")
               ELSE assign_session_to_instance(v, inst, present))
    ELSE IF tg.unres THEN Err("NameError")
    ELSE IF tg.self /\ inst # NoInst
         THEN assign_session_to_instance(v, inst, present)
         ELSE assign_session_to_argument(v, tg, kw)

----------------------------------------------------------------------------
(* Objects *)

\* A _SessionScopeMaker: kwds is the provider keyword of self.kwds ("deleted" once
\* __enter__ has run `del self.args, self.kwds, self.func`), gen the state of
\* self.gen, instance/attr the fields _instance/_instance_session_attr, hid the
\* session its generator yielded.
NewMgr(kw) ==
    [kwds |-> kw, gen |-> "fresh", instance |-> NoInst, attr |-> FALSE, hid |-> NoHandle]

\* a context manager that keeps args/kwds/func when it is entered
del_kwds_kept(kw) == kw

\* contextlib's __enter__, first statement: del self.args, self.kwds, self.func
del_kwds(kw) == "deleted"

\* a decorator that enters the template itself instead of a copy
recreate_cm_shared(ms, self) == <<ms, self>>

\* _recreate_cm: self.__class__(self.func, self.args, self.kwds); returns the
\* managers and the id of the one the call uses, 0 when self.func is gone (self has
\* been entered) and the attribute access raises AttributeError.
recreate_cm(ms, self) ==
    IF ms[self].kwds = "deleted" THEN <<ms, 0>>
    ELSE <<Append(ms, NewMgr(ms[self].kwds)), Len(ms) + 1>>

NewCall(kind, decl, explicit, target, inst, kw, mgr, parent) ==
    [kind |-> kind, decl |-> decl, explicit |-> explicit, target |-> target,
     inst |-> inst, kw |-> kw,
     mgr |-> mgr, parent |-> parent, pc |-> "enter", exc |-> NoExc,
     invoked |-> FALSE, injected |-> NoHandle, tampered |-> FALSE, body |-> NoExc,
     raised |-> NoExc, propagated |-> FALSE, typ |-> NoExc, outcome |-> "running"]

Top(t) == stacks[t][Len(stacks[t])]
Active(t) == Len(stacks[t]) > 0
At(t, pc) == Active(t) /\ calls[Top(t)].pc = pc

\* a new call may start at top level or from inside a running body
CanStart(t) ==
    /\ Len(calls) < MaxCalls
    /\ Len(stacks[t]) < MaxDepth
    /\ (Active(t) => calls[Top(t)].pc = "body")

Parent(t) == IF Active(t) THEN Top(t) ELSE 0

\* a scope maker the program holds in a variable: built for a with-block or for a
\* manual __exit__ (the copies made by _recreate_cm are local to inner)
Held(m) == \E c \in 1..Len(calls) : calls[c].mgr = m /\ calls[c].kind \in {"with", "exit"}
\* no with-block or call is working on the scope maker
\* a with-block has entered the held scope maker (it may still be inside)
Entered(m) ==
    \E c \in 1..Len(calls) :
        calls[c].mgr = m /\ calls[c].kind = "with" /\ calls[c].pc # "enter"
\* the provider keyword the held scope maker was built with
ExplicitOf(m) ==
    calls[CHOOSE c \in 1..Len(calls) :
              calls[c].mgr = m /\ calls[c].kind \in {"with", "exit"}].explicit
Idle(m) == \A c \in 1..Len(calls) : calls[c].mgr = m => calls[c].pc = "over"

Log(h) == SelectSeq(events, LAMBDA e : e.h = h)
Ops(h) == [i \in 1..Len(Log(h)) |-> Log(h)[i].op]
Count(h, op) == Len(SelectSeq(events, LAMBDA e : e.h = h /\ e.op = op))

----------------------------------------------------------------------------
(* Initial state *)

InitIn(md, threads) ==
    /\ mode = md
    /\ variant \in Variants
    /\ engine \in Defaults
    /\ mgrs = [d \in 1..NDecls |-> NewMgr(scope_kwds(variant, DeclSeq[d].explicit))]
    /\ handles = <<>>
    /\ events = <<>>
    /\ attr = [i \in Bindable |-> AttrAbsent]
    /\ calls = <<>>
    /\ stacks = [t \in threads |-> <<>>]
    /\ bonus = NoBonus

Init == InitIn("plain", {1})

----------------------------------------------------------------------------
(* Operations *)

Push(t, c) == stacks' = [stacks EXCEPT ![t] = Append(@, c)]
Pop(t) == stacks' = [stacks EXCEPT ![t] = SubSeq(@, 1, Len(@) - 1)]

\* inner(*args, **kwargs), first statement: recreated = self._recreate_cm()
Call(t, d, inst, kw) ==
    /\ CanStart(t)
    /\ <<DeclSeq[d].target, inst, kw>> \in Shapes(mode)
    /\ DeclSeq[d].explicit # KwAbsent => kw = "absent"
    /\ LET r == recreate_cm(mgrs, d)
       IN  /\ mgrs' = r[1]
           /\ calls' = Append(calls,
                  NewCall("deco", d, DeclSeq[d].explicit, DeclSeq[d].target, inst, kw,
                          r[2], Parent(t)))
    /\ Push(t, Len(calls) + 1)
    /\ UNCHANGED <<bonus, mode, variant, engine, handles, events, attr>>

\* with db_scope(using=explicit) as session: the scope maker is built by db_scope
With(t, explicit) ==
    /\ CanStart(t)
    /\ explicit \in ScopeExplicits(mode)
    /\ mgrs' = Append(mgrs, NewMgr(scope_kwds(variant, explicit)))
    /\ calls' = Append(calls,
           NewCall("with", 0, explicit, "block", NoInst, "absent", Len(mgrs) + 1,
                   Parent(t)))
    /\ Push(t, Len(calls) + 1)
    /\ UNCHANGED <<bonus, mode, variant, engine, handles, events, attr>>

\* with cm as session: a second time on a scope maker that has been entered
EnterAgain(t, m) ==
    /\ CanStart(t)
    /\ Entered(m)
    /\ calls' = Append(calls,
           NewCall("with", 0, ExplicitOf(m), "block", NoInst, "absent", m, Parent(t)))
    /\ Push(t, Len(calls) + 1)
    /\ UNCHANGED <<bonus, mode, variant, engine, mgrs, handles, events, attr>>

\* g = cm(f) with a scope maker that has been entered, then g(): inner fails in its
\* first statement, self._recreate_cm()
CallReused(t, m) ==
    /\ CanStart(t)
    /\ Entered(m)
    /\ LET r == recreate_cm(mgrs, m)
           c == NewCall("reused", 0, ExplicitOf(m), "fn_db", NoInst, "absent",
                        IF r[2] = 0 THEN m ELSE r[2], Parent(t))
       IN  /\ mgrs' = r[1]
           /\ calls' = Append(calls,
                  IF r[2] = 0 THEN [c EXCEPT !.exc = "AttributeError", !.pc = "done"]
                  ELSE c)
    /\ Push(t, Len(calls) + 1)
    /\ UNCHANGED <<bonus, mode, variant, engine, handles, events, attr>>

\* what a caller passes to a manual __exit__: (None, None, None) or (E, E(), None)
ExitTyps == {NoExc, "E"}

\* the exception __exit__ is given: by the caller of a manual __exit__, else the one
\* that leaves the with-block
thrown(c) == IF calls[c].kind = "exit" THEN calls[c].typ ELSE calls[c].exc

\* db_scope(using=explicit).__exit__(typ, value, None): exit without enter
ExitIdle(t, explicit, typ) ==
    /\ CanStart(t)
    /\ explicit \in ScopeExplicits(mode)
    /\ mgrs' = Append(mgrs, NewMgr(scope_kwds(variant, explicit)))
    /\ calls' = Append(calls,
           [NewCall("exit", 0, explicit, "block", NoInst, "absent", Len(mgrs) + 1,
                    Parent(t)) EXCEPT !.pc = "exit", !.typ = typ])
    /\ Push(t, Len(calls) + 1)
    /\ UNCHANGED <<bonus, mode, variant, engine, handles, events, attr>>

\* cm.__exit__(typ, value, None) once more, after the with-block (or the manual
\* exit) on cm is over
ExitAgain(t, m, typ) ==
    /\ CanStart(t)
    /\ Held(m)
    /\ Idle(m)
    /\ mgrs[m].gen # "running"
    /\ calls' = Append(calls,
           [NewCall("exit", 0, ExplicitOf(m), "block", NoInst, "absent", m, Parent(t))
                EXCEPT !.pc = "exit", !.typ = typ])
    /\ Push(t, Len(calls) + 1)
    /\ UNCHANGED <<bonus, mode, variant, engine, mgrs, handles, events, attr>>

\* _SessionScopeMaker.__enter__: reads self.kwds, then contextlib's __enter__ deletes
\* args/kwds/func and runs get_db up to its yield.
Enter(t) ==
    /\ At(t, "enter")
    /\ LET c == Top(t)
           m == calls[c].mgr
           provider == get_db(variant, mgrs[m].kwds, engine)
       IN  IF mgrs[m].kwds = "deleted"
           THEN /\ calls' = [calls EXCEPT ![c].exc = "AttributeError", ![c].pc = "done"]
                /\ UNCHANGED <<mgrs, handles, events>>
           ELSE IF provider = NoEngine
           THEN /\ mgrs' = [mgrs EXCEPT ![m].kwds = del_kwds(@), ![m].gen = "done"]
                /\ calls' = [calls EXCEPT ![c].exc = "ConfigurationError",
                                          ![c].pc = "done"]
                /\ UNCHANGED <<handles, events>>
           ELSE /\ handles' = Append(handles, [provider |-> provider, mgr |-> m])
                /\ events' = Append(events,
                       [op |-> "open", h |-> Len(handles) + 1, by |-> c, ok |-> TRUE])
                /\ mgrs' = [mgrs EXCEPT ![m].kwds = del_kwds(@), ![m].gen = "suspended",
                                        ![m].hid = Len(handles) + 1]
                /\ calls' = [calls EXCEPT
                       ![c].pc = IF calls[c].kind = "with" THEN "body" ELSE "assign",
                       ![c].invoked = (calls[c].kind = "with")]
    /\ UNCHANGED <<bonus, mode, variant, engine, attr, stacks>>

\* recreated._assign_session(func, session, args, kwargs) up to the binding
Assign(t) ==
    /\ At(t, "assign")
    /\ LET c == Top(t)
           r == assign_session(variant, Targets[calls[c].target], calls[c].inst,
                               calls[c].kw, hasattr(attr, calls[c].inst))
       IN  calls' = [calls EXCEPT ![c] =
               IF r.kind = "error"
               THEN [@ EXCEPT !.exc = r.exc, !.raised = r.exc, !.pc = "exit"]
               ELSE IF r.kind = "param"
               THEN [@ EXCEPT !.injected = injected_value(calls[c].kw,
                                                           mgrs[calls[c].mgr].hid),
                              !.invoked = TRUE,
                              !.pc = "body"]
               ELSE [@ EXCEPT !.pc = "bind"]]
    /\ UNCHANGED <<bonus, mode, variant, engine, mgrs, handles, events, attr, stacks>>

\* _assign_session_to_instance, last three statements: memorize and setattr
Bind(t) ==
    /\ At(t, "bind")
    /\ LET c == Top(t)
           m == calls[c].mgr
       IN  /\ mgrs' = [mgrs EXCEPT ![m].instance = calls[c].inst, ![m].attr = TRUE]
           /\ attr' = [attr EXCEPT ![calls[c].inst] = mgrs[m].hid]
           /\ calls' = [calls EXCEPT ![c].invoked = TRUE, ![c].pc = "body"]
    /\ UNCHANGED <<bonus, mode, variant, engine, handles, events, stacks>>

\* the body of an attribute-bound method deletes the session attribute of self
BodyDelAttr(t) ==
    /\ At(t, "body")
    /\ mgrs[calls[Top(t)].mgr].instance # NoInst
    /\ attr[calls[Top(t)].inst] # AttrAbsent
    /\ attr' = [attr EXCEPT ![calls[Top(t)].inst] = AttrAbsent]
    /\ calls' = [calls EXCEPT ![Top(t)].tampered = TRUE]
    /\ UNCHANGED <<bonus, mode, variant, engine, mgrs, handles, events, stacks>>

\* the body of an attribute-bound method assigns something else to the attribute
BodySetAttr(t) ==
    /\ At(t, "body")
    /\ mgrs[calls[Top(t)].mgr].instance # NoInst
    /\ attr[calls[Top(t)].inst] # AttrForeign
    /\ attr' = [attr EXCEPT ![calls[Top(t)].inst] = AttrForeign]
    /\ calls' = [calls EXCEPT ![Top(t)].tampered = TRUE]
    /\ UNCHANGED <<bonus, mode, variant, engine, mgrs, handles, events, stacks>>

\* an assignment to module.engine followed by the sessions opened on the former
\* default (sessions that refer to the slot and not to the engine read at enter)
SetEngine_rebinding(t, e) ==
    /\ ~Active(t) \/ At(t, "body")
    /\ e # engine
    /\ engine' = e
    /\ handles' = [h \in 1..Len(handles) |->
                       IF handles[h].provider = engine
                       THEN [handles[h] EXCEPT !.provider = e]
                       ELSE handles[h]]
    /\ UNCHANGED <<bonus, mode, variant, mgrs, events, attr, calls, stacks>>

\* module.engine = e, between calls or from inside a body
SetEngine(t, e) ==
    /\ ~Active(t) \/ At(t, "body")
    /\ e # engine
    /\ engine' = e
    /\ UNCHANGED <<bonus, mode, variant, mgrs, handles, events, attr, calls, stacks>>

\* the body (the wrapped function or the with-block) completes
BodyReturn(t) ==
    /\ At(t, "body")
    /\ calls' = [calls EXCEPT ![Top(t)].body = "ret", ![Top(t)].pc = "exit"]
    /\ UNCHANGED <<bonus, mode, variant, engine, mgrs, handles, events, attr, stacks>>

\* the body raises E
BodyRaise(t) ==
    /\ At(t, "body")
    /\ calls' = [calls EXCEPT ![Top(t)].body = "E", ![Top(t)].exc = "E",
                              ![Top(t)].pc = "exit"]
    /\ UNCHANGED <<bonus, mode, variant, engine, mgrs, handles, events, attr, stacks>>

\* __exit__ that deletes the session attribute of the first positional argument,
\* memorized or not
Exit_first_argument(t) ==
    /\ At(t, "exit")
    /\ LET c == Top(t)
           m == calls[c].mgr
           i == IF mgrs[m].instance # NoInst THEN mgrs[m].instance
                ELSE IF calls[c].inst \in Bindable THEN calls[c].inst
                ELSE NoInst
       IN  IF i # NoInst /\ Instances[i].truthy
           THEN IF attr[i] = AttrAbsent
                THEN /\ calls' = [calls EXCEPT ![c].exc = "AttributeError",
                                               ![c].pc = "done"]
                     /\ UNCHANGED attr
                ELSE /\ attr' = [attr EXCEPT ![i] = AttrAbsent]
                     /\ calls' = [calls EXCEPT ![c].pc = "finalize"]
           ELSE /\ calls' = [calls EXCEPT ![c].pc = "finalize"]
                /\ UNCHANGED attr
    /\ UNCHANGED <<bonus, mode, variant, engine, mgrs, handles, events, stacks>>

\* _SessionScopeMaker.__exit__ up to super().__exit__:
\*   if self._instance: delattr(self._instance, self._instance_session_attr)
Exit(t) ==
    /\ At(t, "exit")
    /\ LET c == Top(t)
           m == calls[c].mgr
           i == mgrs[m].instance
       IN  IF i # NoInst /\ Instances[i].truthy
           THEN IF attr[i] = AttrAbsent
                THEN /\ calls' = [calls EXCEPT ![c].exc = "AttributeError",
                                               ![c].pc = "done"]
                     /\ UNCHANGED attr
                ELSE /\ attr' = [attr EXCEPT ![i] = AttrAbsent]
                     /\ calls' = [calls EXCEPT ![c].pc = "finalize"]
           ELSE /\ calls' = [calls EXCEPT ![c].pc = "finalize"]
                /\ UNCHANGED attr
    /\ UNCHANGED <<bonus, mode, variant, engine, mgrs, handles, events, stacks>>

\* a transaction that commits whatever the body did
end_transaction_always_commit(exc) == "commit"

\* session.begin() leaving its block at the yield of get_db: commit when get_db is
\* resumed with next(), rollback when an exception is thrown in
end_transaction(exc) == IF exc = NoExc THEN "commit" ELSE "rollback"

\* Session.rollback() can fail only in a run against a failing database
rollback_outcomes(md, op) ==
    IF md = "faults" /\ op = "rollback" THEN {"ok", "raises"} ELSE {"ok"}

\* a generator that runs its second phase again when it is resumed after its end
gen_next_replayed(g, exc) == IF g = "fresh" THEN "start" ELSE "resume"

\* next() (exc is none) or throw(exc) on the generator of get_db: suspended, it
\* resumes after its yield; never started, next() starts it and throw() ends it
\* without running any of get_db and raises exc; running, both raise
\* ValueError("generator already executing"); finished, next() raises StopIteration
\* and throw() raises exc
gen_next(g, exc) ==
    IF g = "suspended" THEN "resume"
    ELSE IF g = "fresh" THEN (IF exc = NoExc THEN "start" ELSE "end")
    ELSE IF g = "running" THEN "executing"
    ELSE "stop"

\* contextlib's __exit__ after next() returned instead of raising StopIteration:
\*     raise RuntimeError("generator didn't stop")
\* Up to Python 3.11 this is all (the generator stays suspended at its yield); from
\* Python 3.12 the statement is wrapped in try/finally with self.gen.close().
didnt_stop_outcomes == {"left suspended", "closed"}

\* super().__exit__(typ, value, traceback), by the state of the generator.
\*   suspended: get_db resumes after its yield, with next() or throw();
\*              session.begin() commits or rolls back (this step), then Session
\*              closes (step Close); the exception thrown in comes back and is
\*              re-raised by the with statement, but an exception raised by the
\*              rollback replaces it.
\*   done:      next() raises StopIteration and __exit__ returns False; throw()
\*              raises the exception thrown in, which __exit__ swallows.
\*   running:   next() raises ValueError("generator already executing").
\*   fresh:     throw() ends the generator, nothing of get_db runs, the exception
\*              thrown in comes back and __exit__ returns False;
\*              next() starts get_db: ConfigurationError, or a session is opened,
\*              get_db yields and __exit__ raises RuntimeError("generator didn't
\*              stop"), after closing the generator or not (didnt_stop_outcomes).
Finalize(t) ==
    /\ At(t, "finalize")
    /\ LET c == Top(t)
           m == calls[c].mgr
           h == mgrs[m].hid
           op == end_transaction(thrown(c))
           provider == get_db(variant, mgrs[m].kwds, engine)
           nxt == gen_next(mgrs[m].gen, thrown(c))
       IN  IF nxt = "resume"
           THEN \E r \in rollback_outcomes(mode, op) :
                    /\ events' = Append(events,
                           [op |-> op, h |-> h, by |-> c, ok |-> (r = "ok")])
                    /\ mgrs' = [mgrs EXCEPT ![m].gen = "running"]
                    /\ calls' = [calls EXCEPT
                           ![c].exc = IF r = "raises" THEN "TeardownError" ELSE @,
                           ![c].pc = "close"]
                    /\ UNCHANGED handles
           ELSE IF nxt = "stop"
           THEN /\ calls' = [calls EXCEPT ![c].pc = "done"]
                /\ UNCHANGED <<mgrs, handles, events>>
           ELSE IF nxt = "executing"
           THEN /\ calls' = [calls EXCEPT ![c].exc = "ValueError", ![c].pc = "done"]
                /\ UNCHANGED <<mgrs, handles, events>>
           ELSE IF nxt = "end"
           THEN /\ mgrs' = [mgrs EXCEPT ![m].gen = "done"]
                /\ calls' = [calls EXCEPT ![c].pc = "done"]
                /\ UNCHANGED <<handles, events>>
           ELSE IF provider = NoEngine
           THEN /\ mgrs' = [mgrs EXCEPT ![m].gen = "done"]
                /\ calls' = [calls EXCEPT ![c].exc = "ConfigurationError",
                                          ![c].pc = "done"]
                /\ UNCHANGED <<handles, events>>
           ELSE /\ handles' = Append(handles, [provider |-> provider, mgr |-> m])
                /\ events' = Append(events,
                       [op |-> "open", h |-> Len(handles) + 1, by |-> c, ok |-> TRUE])
                /\ mgrs' = [mgrs EXCEPT ![m].gen = "suspended",
                                        ![m].hid = Len(handles) + 1]
                /\ \E o \in didnt_stop_outcomes :
                       calls' = [calls EXCEPT
                           ![c].exc = "RuntimeError",
                           ![c].pc = IF o = "closed" THEN "genclose" ELSE "done"]
    /\ UNCHANGED <<bonus, mode, variant, engine, attr, stacks>>

\* self.gen.close() in the finally of "generator didn't stop": GeneratorExit is
\* raised at the yield of get_db and session.begin() rolls back; Session closes in
\* the next step.  A rollback that raises replaces the RuntimeError.
GenClose(t) ==
    /\ At(t, "genclose")
    /\ LET c == Top(t)
           m == calls[c].mgr
           h == mgrs[m].hid
       IN  \E r \in rollback_outcomes(mode, "rollback") :
               /\ events' = Append(events,
                      [op |-> "rollback", h |-> h, by |-> c, ok |-> (r = "ok")])
               /\ mgrs' = [mgrs EXCEPT ![m].gen = "running"]
               /\ calls' = [calls EXCEPT
                      ![c].exc = IF r = "raises" THEN "TeardownError" ELSE @,
                      ![c].pc = "close"]
    /\ UNCHANGED <<bonus, mode, variant, engine, handles, attr, stacks>>

\* get_db leaves `with Session(...) as session`: Session.__exit__ closes the session
\* and the generator ends
Close(t) ==
    /\ At(t, "close")
    /\ LET c == Top(t)
           m == calls[c].mgr
       IN  /\ events' = Append(events,
                  [op |-> "close", h |-> mgrs[m].hid, by |-> c, ok |-> TRUE])
           /\ mgrs' = [mgrs EXCEPT ![m].gen = "done"]
           /\ calls' = [calls EXCEPT ![c].pc = "done"]
    /\ UNCHANGED <<bonus, mode, variant, engine, handles, attr, stacks>>

\* the call that opened the session
OpenedBy(h) == events[CHOOSE i \in 1..Len(events) :
                          events[i].h = h /\ events[i].op = "open"].by

\* the exception a call raised into its caller is still going up: the caller, or a
\* caller of the caller it went on to, has not finished
RECURSIVE InFlight(_)
InFlight(c) ==
    /\ calls[c].propagated
    /\ \/ calls[calls[c].parent].pc # "over"
       \/ InFlight(calls[c].parent)

\* The scope maker of a call that is over is garbage; when its generator is still
\* suspended at the yield of get_db (__exit__ raised before super().__exit__, or
\* __exit__ started it), the interpreter closes the generator: GeneratorExit is raised
\* at the yield and session.begin() rolls back (this step), then Session closes
\* (step CollectClose).  This happens at any moment once the exception of the call is
\* dropped, whatever the other calls are doing; it cannot happen while that exception
\* is still going up through a caller (its traceback refers to the frame of inner).
Collect(m) ==
    /\ mgrs[m].gen = "suspended"
    /\ \E c \in 1..Len(calls) : calls[c].mgr = m
    /\ Idle(m)
    /\ \A c \in 1..Len(calls) : calls[c].mgr = m => ~InFlight(c)
    /\ LET h == mgrs[m].hid
       IN  \E r \in rollback_outcomes(mode, "rollback") :
               events' = Append(events,
                   [op |-> "rollback", h |-> h, by |-> OpenedBy(h), ok |-> (r = "ok")])
    /\ mgrs' = [mgrs EXCEPT ![m].gen = "running"]
    /\ UNCHANGED <<bonus, mode, variant, engine, handles, attr, calls, stacks>>

\* the generator being closed by the interpreter leaves `with Session(...)`: the
\* session is closed and the generator ends
CollectClose(m) ==
    /\ mgrs[m].gen = "running"
    /\ \E c \in 1..Len(calls) : calls[c].mgr = m
    /\ Idle(m)
    /\ LET h == mgrs[m].hid
       IN  events' = Append(events,
               [op |-> "close", h |-> h, by |-> OpenedBy(h), ok |-> TRUE])
    /\ mgrs' = [mgrs EXCEPT ![m].gen = "done"]
    /\ UNCHANGED <<bonus, mode, variant, engine, handles, attr, calls, stacks>>

Outcome(c) == IF calls[c].exc = NoExc THEN "returned" ELSE calls[c].exc

\* the call returns, or raises to the top level or into a caller that catches
Return(t) ==
    /\ At(t, "done")
    /\ calls' = [calls EXCEPT ![Top(t)].outcome = Outcome(Top(t)), ![Top(t)].pc = "over"]
    /\ Pop(t)
    /\ UNCHANGED <<bonus, mode, variant, engine, mgrs, handles, events, attr>>

\* the call raises into the body of its caller, which lets the exception through
Propagate(t) ==
    /\ At(t, "done")
    /\ calls[Top(t)].exc # NoExc
    /\ calls[Top(t)].parent # 0
    /\ LET c == Top(t)
           p == calls[c].parent
       IN  calls' = [calls EXCEPT ![c].outcome = Outcome(c), ![c].pc = "over",
                                  ![c].propagated = TRUE,
                                  ![p].body = calls[c].exc, ![p].exc = calls[c].exc,
                                  ![p].pc = "exit"]
    /\ Pop(t)
    /\ UNCHANGED <<bonus, mode, variant, engine, mgrs, handles, events, attr>>

Next ==
    \/ \E t \in DOMAIN stacks, d \in 1..NDecls,
          inst \in (DOMAIN Instances) \cup {NoInst}, kw \in KwPassed : Call(t, d, inst, kw)
    \/ \E t \in DOMAIN stacks, x \in Explicits : With(t, x)
    \/ \E t \in DOMAIN stacks, m \in DOMAIN mgrs : EnterAgain(t, m)
    \/ \E t \in DOMAIN stacks, m \in DOMAIN mgrs : CallReused(t, m)
    \/ \E t \in DOMAIN stacks, x \in Explicits, typ \in ExitTyps : ExitIdle(t, x, typ)
    \/ \E t \in DOMAIN stacks, m \in DOMAIN mgrs, typ \in ExitTyps : ExitAgain(t, m, typ)
    \/ \E t \in DOMAIN stacks : Enter(t)
    \/ \E t \in DOMAIN stacks : Assign(t)
    \/ \E t \in DOMAIN stacks : Bind(t)
    \/ \E t \in DOMAIN stacks : BodyDelAttr(t)
    \/ \E t \in DOMAIN stacks : BodySetAttr(t)
    \/ \E t \in DOMAIN stacks, e \in Defaults : SetEngine(t, e)
    \/ \E t \in DOMAIN stacks : BodyReturn(t)
    \/ \E t \in DOMAIN stacks : BodyRaise(t)
    \/ \E t \in DOMAIN stacks : Exit(t)
    \/ \E t \in DOMAIN stacks : Finalize(t)
    \/ \E t \in DOMAIN stacks : GenClose(t)
    \/ \E t \in DOMAIN stacks : Close(t)
    \/ \E m \in DOMAIN mgrs : Collect(m)
    \/ \E m \in DOMAIN mgrs : CollectClose(m)
    \/ \E t \in DOMAIN stacks : Return(t)
    \/ \E t \in DOMAIN stacks : Propagate(t)

Spec == Init /\ [][Next]_vars

\* two threads of one process, preempted between any two steps
InitThreads == InitIn("threads", {1, 2})
SpecThreads == InitThreads /\ [][Next]_vars

\* one thread against a database whose rollback can fail
InitFaults == InitIn("faults", {1})
SpecFaults == InitFaults /\ [][Next]_vars

----------------------------------------------------------------------------
(* 08-summary_bonus.py: db_session, a decorator for functions *)

\* db_session(using) up to the definition of wrapper, by the set of Session-annotated
\* keys: the outcomes of
\*     attr_name = session_attrs.pop()
\*     if len(session_attrs) != 1: raise RuntimeError()
\* pop() on an empty set raises KeyError; on a set it removes an arbitrary element,
\* and the length is taken after the removal.
db_session(session_attrs) ==
    IF session_attrs = {}
    THEN {[result |-> "KeyError", attr_name |-> NoAttrName]}
    ELSE {[result |-> IF Cardinality(session_attrs \ {k}) # 1 THEN "RuntimeError"
                      ELSE "wrapper",
           attr_name |-> k] : k \in session_attrs}

\* f = db_session(f)
Decorate(f) ==
    /\ bonus.decorated[f] = NotDecorated
    /\ \E o \in db_session(BonusTargets[f]) :
           bonus' = [bonus EXCEPT !.decorated[f] = o.result,
                                  !.attr_name[f] = IF o.result = "wrapper" THEN o.attr_name
                                                   ELSE NoAttrName]
    /\ UNCHANGED <<mode, variant, engine, mgrs, handles, events, attr, calls, stacks>>

BonusRun(f) ==
    [f |-> f, pc |-> "enter", session |-> 0, injected |-> NoAttrName, body |-> NoExc,
     exc |-> NoExc, outcome |-> "running"]

LastRun == bonus.runs[Len(bonus.runs)]
RunAt(pc) == Len(bonus.runs) > 0 /\ LastRun.pc = pc

\* a call of a wrapper made by db_session
wrapper_call(f) ==
    /\ bonus.decorated[f] = "wrapper"
    /\ Len(bonus.runs) < MaxCalls
    /\ Len(bonus.runs) > 0 => LastRun.pc = "over"
    /\ bonus' = [bonus EXCEPT !.runs = Append(@, BonusRun(f))]
    /\ UNCHANGED <<mode, variant, engine, mgrs, handles, events, attr, calls, stacks>>

\* with Context() as session: get_db runs up to its yield inside
\* SessionLocal.begin()
wrapper_enter ==
    /\ RunAt("enter")
    /\ bonus' = [bonus EXCEPT !.sessions = Append(@, <<"open">>),
                              !.runs[Len(bonus.runs)].session = Len(bonus.sessions) + 1,
                              !.runs[Len(bonus.runs)].pc = "inject"]
    /\ UNCHANGED <<mode, variant, engine, mgrs, handles, events, attr, calls, stacks>>

\* kwargs[attr_name] = session; result = using(*args, **kwargs): the call raises
\* TypeError when attr_name is no parameter of the function
wrapper_inject ==
    /\ RunAt("inject")
    /\ LET k == bonus.attr_name[LastRun.f]
       IN  bonus' = IF k = "return"
                    THEN [bonus EXCEPT !.runs[Len(bonus.runs)].exc = "TypeError",
                                       !.runs[Len(bonus.runs)].pc = "exit"]
                    ELSE [bonus EXCEPT !.runs[Len(bonus.runs)].injected = k,
                                       !.runs[Len(bonus.runs)].pc = "body"]
    /\ UNCHANGED <<mode, variant, engine, mgrs, handles, events, attr, calls, stacks>>

\* the function returns
wrapper_body_return ==
    /\ RunAt("body")
    /\ bonus' = [bonus EXCEPT !.runs[Len(bonus.runs)].body = "ret",
                              !.runs[Len(bonus.runs)].pc = "exit"]
    /\ UNCHANGED <<mode, variant, engine, mgrs, handles, events, attr, calls, stacks>>

\* the function raises E
wrapper_body_raise ==
    /\ RunAt("body")
    /\ bonus' = [bonus EXCEPT !.runs[Len(bonus.runs)].body = "E",
                              !.runs[Len(bonus.runs)].exc = "E",
                              !.runs[Len(bonus.runs)].pc = "exit"]
    /\ UNCHANGED <<mode, variant, engine, mgrs, handles, events, attr, calls, stacks>>

\* the with-block of wrapper is left: SessionLocal.begin() commits or rolls back
\* and closes the session, then wrapper returns result or the exception goes on
wrapper_exit ==
    /\ RunAt("exit")
    /\ LET r == LastRun
       IN  bonus' = [bonus EXCEPT
               !.sessions[r.session] = @ \o <<end_transaction(r.exc), "close">>,
               !.runs[Len(bonus.runs)].pc = "over",
               !.runs[Len(bonus.runs)].outcome =
                   IF r.exc = NoExc THEN "returned" ELSE r.exc]
    /\ UNCHANGED <<mode, variant, engine, mgrs, handles, events, attr, calls, stacks>>

NextBonus ==
    \/ \E f \in DOMAIN BonusTargets : Decorate(f)
    \/ \E f \in DOMAIN BonusTargets : wrapper_call(f)
    \/ wrapper_enter
    \/ wrapper_inject
    \/ wrapper_body_return
    \/ wrapper_body_raise
    \/ wrapper_exit

\* the script alone: the modules session.py and session_context.py are not used
InitBonus ==
    /\ mode = "plain"
    /\ variant = "session"
    /\ engine = NoEngine
    /\ mgrs = <<>>
    /\ handles = <<>>
    /\ events = <<>>
    /\ attr = [i \in Bindable |-> AttrAbsent]
    /\ calls = <<>>
    /\ stacks = [t \in {1} |-> <<>>]
    /\ bonus = NoBonus

SpecBonus == InitBonus /\ [][NextBonus]_vars

----------------------------------------------------------------------------
(* Vocabulary of the properties *)

CallIds == 1..Len(calls)
HandleOf(c) == mgrs[calls[c].mgr].hid
Decorated(c) == calls[c].kind = "deco"
\* the call has left __exit__ (or failed in __enter__) and is about to return or raise
Leaving(c) == calls[c].pc \in {"done", "over"}
\* the scope manager of the call memorized an instance in _assign_session_to_instance
Bound(c) == mgrs[calls[c].mgr].instance # NoInst
\* __enter__ of the call raised ConfigurationError
EnterFailed(c) == calls[c].exc = "ConfigurationError" /\ HandleOf(c) = NoHandle

\* the errors _assign_session and the functions it calls raise
ResolutionErrors ==
    {"AnnotationError", "SentinelError", "DirectInjectionError",
     "BindingConflictError", "UnsupportedAnnotationFormError", "NameError"}
\* _assign_session of this very call raised e (the wrapped function never started)
OwnError(c, e) == Decorated(c) /\ ~calls[c].invoked /\ calls[c].raised = e
OwnResolutionError(c) == \E e \in ResolutionErrors : OwnError(c, e)

Committed == <<"open", "commit", "close">>
RolledBack == <<"open", "rollback", "close">>

----------------------------------------------------------------------------
(* C1 .. C10 *)

\* C1: for every scope (with-block or decorated call) whose body completes without
\* raising, commit is invoked exactly once on the scope's handle, rollback never,
\* and close exactly once, after the commit.
C1_CommitOnSuccess ==
    \A c \in CallIds :
        (Leaving(c) /\ calls[c].body = "ret") => Ops(HandleOf(c)) = Committed

\* C2: for every scope whose body raises E, rollback is invoked exactly once on the
\* scope's handle, commit never, close exactly once, and the caller observes E.
C2_RollbackOnFailure ==
    \A c \in CallIds :
        (Leaving(c) /\ calls[c].body \notin {NoExc, "ret"}) =>
            /\ Ops(HandleOf(c)) = RolledBack
            /\ calls[c].exc = calls[c].body
            /\ (calls[c].pc = "over" => calls[c].outcome = calls[c].body)

\* C3: a decorated call that raises an injection-resolution error has
\* opened no resource handle at any point.
C3_NoHandleOnResolutionError ==
    \A c \in CallIds : OwnResolutionError(c) => HandleOf(c) = NoHandle

\* C4: through one decorator declaration (and across declarations) every call uses
\* its own scope manager and its own handle, never one of another call, and every
\* call acquires a fresh handle unless no provider is resolvable.
C4_FreshHandlePerCall ==
    \A c \in CallIds :
        Decorated(c) =>
            /\ calls[c].pc # "enter" =>
                   \/ EnterFailed(c)
                   \/ HandleOf(c) # NoHandle /\ handles[HandleOf(c)].mgr = calls[c].mgr
            /\ calls[c].mgr > NDecls
            /\ \A c2 \in CallIds \ {c} :
                   /\ calls[c2].mgr # calls[c].mgr
                   /\ HandleOf(c) # NoHandle => HandleOf(c2) # HandleOf(c)

C4_Witness ==
    \E c1, c2 \in CallIds :
        /\ c1 < c2
        /\ Decorated(c1) /\ Decorated(c2)
        /\ calls[c1].decl = calls[c2].decl
        /\ calls[c1].pc = "over" /\ calls[c2].pc = "over"
        /\ calls[c2].parent = 0
        /\ HandleOf(c1) # NoHandle /\ HandleOf(c2) # NoHandle

\* C5: when a decorated method call tries to bind, it raises BindingConflictError
\* exactly when the instance's session attribute is already set; binding never
\* proceeds while the attribute is present.
C5_ConflictIffAttributeSet ==
    [][\A t \in DOMAIN stacks :
          /\ (At(t, "assign") /\ calls'[Top(t)].pc # "assign") =>
                 LET c == Top(t)
                     i == calls[c].inst
                     present == i \in Bindable /\ attr[i] # AttrAbsent
                 IN  /\ calls'[c].exc = "BindingConflictError" => present
                     /\ calls'[c].pc = "bind" => ~present
          /\ At(t, "bind") => attr[calls[Top(t)].inst] = AttrAbsent
      ]_vars

C5_Witness ==
    \E c \in CallIds :
        /\ OwnError(c, "BindingConflictError")
        /\ calls[c].parent # 0
        /\ Bound(calls[c].parent)
        /\ calls[calls[c].parent].inst = calls[c].inst
        /\ attr[calls[c].inst] = HandleOf(calls[c].parent)

\* C6: for every decorated method call that binds the handle onto the instance
\* attribute, the attribute is absent again when the call returns or raises; a call
\* made after all earlier calls have completed never fails with
\* BindingConflictError.
C6_AttributeReleased ==
    \A c \in CallIds :
        /\ (Decorated(c) /\ Bound(c) /\ calls[c].pc = "done") =>
               attr[calls[c].inst] = AttrAbsent
        /\ calls[c].parent = 0 => ~OwnError(c, "BindingConflictError")

\* C7: whenever the instance attribute holds a handle, that handle is live: acquired
\* by a successful enter and not yet committed, rolled back or closed.
C7_BoundHandleIsLive ==
    \A i \in Bindable :
        attr[i] > 0 =>
            /\ Ops(attr[i]) = <<"open">>
            /\ mgrs[handles[attr[i]].mgr].gen = "suspended"

\* C8: when a decorated callable returns or raises to its caller, the scope it
\* entered is torn down: the handle committed or rolled back and closed, and the
\* instance attribute binding made by the call removed.
C8_TornDownOnReturn ==
    \A c \in CallIds :
        (Decorated(c) /\ Leaving(c) /\ HandleOf(c) # NoHandle) =>
            /\ Ops(HandleOf(c)) \in {Committed, RolledBack}
            /\ Bound(c) => attr[calls[c].inst] # HandleOf(c)

\* C9: with no provider resolvable, entering raises ConfigurationError before the
\* resource is acquired (no handle, body never run, no commit/rollback/close); with
\* the process-wide default set, entering a scope without a usable explicit provider
\* never raises ConfigurationError.
C9_ConfigurationError ==
    \A c \in CallIds :
        /\ EnterFailed(c) => ~calls[c].invoked /\ calls[c].body = NoExc
        /\ HandleOf(c) # NoHandle => handles[HandleOf(c)].provider # NoEngine
        /\ (EnterFailed(c) /\ calls[c].pc = "done") => engine = NoEngine

\* C10: the provider of a scope is the explicit provider given at construction when
\* there is one, otherwise the process-wide default (as it is at enter); with an
\* explicit provider the process-wide default has no effect.
C10_ExplicitOverDefault ==
    [][\A t \in DOMAIN stacks :
          (At(t, "enter") /\ Len(handles') > Len(handles)) =>
              LET x == calls[Top(t)].explicit
                  h == Len(handles')
              IN  /\ handles'[h].provider = IF x \in Engines THEN x ELSE engine
                  /\ handles'[h].provider \in Engines
                  /\ mgrs'[calls[Top(t)].mgr].hid = h
      ]_vars

C10_Witness ==
    \E c1, c2 \in CallIds :
        /\ calls[c1].explicit = "E2" /\ HandleOf(c1) # NoHandle
        /\ handles[HandleOf(c1)].provider = "E2"
        /\ calls[c2].explicit \notin Engines /\ HandleOf(c2) # NoHandle
        /\ handles[HandleOf(c2)].provider = "E1"

----------------------------------------------------------------------------
(* C11 .. C20 *)

\* C11: the process-wide default is read when the scope is entered: a first enter of
\* a scope built without a usable explicit provider opens the handle against the
\* value `engine` has at that step, whatever it was when the decorator or the scope
\* was created, and raises ConfigurationError without opening a handle when `engine`
\* is None at that step; this holds for each call separately.
C11_DefaultReadAtEnter ==
    [][\A t \in DOMAIN stacks :
          LET c == Top(t)
              m == calls[c].mgr
              x == calls[c].explicit
          IN  (/\ At(t, "enter")
               /\ calls'[c].pc # "enter"
               /\ mgrs[m].gen = "fresh"
               /\ x \notin Engines
               /\ ~(variant = "session_context" /\ x = NoEngine)) =>
                  IF engine = NoEngine
                  THEN /\ calls'[c].exc = "ConfigurationError"
                       /\ handles' = handles
                  ELSE /\ Len(handles') = Len(handles) + 1
                       /\ handles'[Len(handles')].provider = engine
                       /\ mgrs'[m].hid = Len(handles')
      ]_vars

C11_Witness ==
    \E c1, c2 \in CallIds :
        /\ c1 < c2
        /\ Decorated(c1) /\ Decorated(c2)
        /\ calls[c1].decl = calls[c2].decl
        /\ calls[c1].explicit = KwAbsent
        /\ calls[c1].pc = "over" /\ calls[c2].pc = "over"
        /\ calls[c2].parent = 0
        /\ calls[c1].outcome = "ConfigurationError" /\ HandleOf(c1) = NoHandle
        /\ HandleOf(c2) # NoHandle
        /\ handles[HandleOf(c2)].provider = "E1"

\* C12: a decorated call that passes the session-marked keyword itself, whatever the
\* value (None and other falsy values included), raises DirectInjectionError and
\* does not invoke the wrapped function.
C12_DirectInjectionRejected ==
    \A c \in CallIds :
        (/\ Decorated(c)
         /\ calls[c].kw # "absent"
         /\ HandleOf(c) # NoHandle
         /\ calls[c].pc \notin {"enter", "assign"}) =>
            /\ ~calls[c].invoked
            /\ calls[c].exc = "DirectInjectionError"

\* C13: a decorated call raises AnnotationError and never invokes the wrapped
\* function when the target has no session-marked parameter and there is no
\* instance, when the target has two or more session-marked parameters, and when the
\* fallback instance has zero or several session-marked attributes.
C13_AnnotationError ==
    \A c \in CallIds :
        LET tg == Targets[calls[c].target]
            i == calls[c].inst
        IN  (/\ Decorated(c)
             /\ HandleOf(c) # NoHandle
             /\ calls[c].pc \notin {"enter", "assign"}
             /\ ~tg.strAnn
             /\ \/ tg.marked = 0 /\ i = NoInst
                \/ tg.marked >= 2
                \/ /\ tg.marked = 0 /\ i # NoInst
                   /\ ~Instances[i].strAnn /\ Instances[i].marked # 1) =>
                OwnError(c, "AnnotationError")

\* C14: when the wrapped function returns V without raising, the decorated call
\* returns V to its caller, after exit has run, and commit was invoked exactly once
\* on the call's handle.
C14_ReturnsValue ==
    \A c \in CallIds :
        (Decorated(c) /\ calls[c].body = "ret" /\ calls[c].pc = "over") =>
            /\ calls[c].outcome = "returned"
            /\ mgrs[calls[c].mgr].gen = "done"
            /\ Count(HandleOf(c), "commit") = 1

\* C15: a scope manager is entered at most once: entering it again (before or after
\* it has exited) and calling a decorator made from it both fail with an error
\* before the body or the function runs, such a call performs no operation on any
\* handle, and no scope manager ever has two handles.
C15_EnteredAtMostOnce ==
    /\ \A c \in CallIds :
           (/\ \/ calls[c].kind = "reused"
               \/ calls[c].kind = "with" /\ \E c0 \in 1..(c - 1) : calls[c0].mgr = calls[c].mgr
            /\ calls[c].pc # "enter") =>
               /\ calls[c].pc \in {"done", "over"}
               /\ calls[c].exc = "AttributeError"
               /\ ~calls[c].invoked
               /\ \A i \in 1..Len(events) : events[i].by # c
    /\ \A h1, h2 \in 1..Len(handles) : handles[h1].mgr = handles[h2].mgr => h1 = h2

C15_Witness ==
    \E c0, c1 \in CallIds :
        /\ calls[c0].kind = "with" /\ calls[c0].pc = "over"
        /\ Ops(HandleOf(c0)) = Committed
        /\ calls[c1].kind = "reused" /\ calls[c1].mgr = calls[c0].mgr
        /\ calls[c1].pc = "over" /\ calls[c1].outcome = "AttributeError"
        /\ Len(handles) = 1

\* C16: __exit__ on a scope manager that was never entered, or that has already
\* exited, raises an error and performs no acquisition, commit, rollback or close.
C16_ExitOnlyWhenEntered ==
    \A c \in CallIds :
        (calls[c].kind = "exit" /\ Leaving(c)) =>
            /\ calls[c].exc # NoExc
            /\ \A i \in 1..Len(events) : events[i].by # c

\* C17: in every interleaving of decorated calls made by two threads, no two calls
\* share a scope manager or a handle, every operation a decorated call performs is on
\* its own handle, and nobody else operates on that handle.
C17_NoSharingAcrossThreads ==
    /\ \A c1, c2 \in CallIds :
           (c1 # c2 /\ Decorated(c1)) =>
               /\ calls[c1].mgr # calls[c2].mgr
               /\ HandleOf(c1) # NoHandle => HandleOf(c2) # HandleOf(c1)
    /\ \A i \in 1..Len(events) :
           Decorated(events[i].by) =>
               /\ events[i].h = HandleOf(events[i].by)
               /\ handles[events[i].h].mgr = calls[events[i].by].mgr
               /\ \A j \in 1..Len(events) :
                      events[j].h = events[i].h => events[j].by = events[i].by

C17_Witness ==
    \E t1, t2 \in DOMAIN stacks :
        /\ t1 # t2
        /\ At(t1, "body") /\ At(t2, "body")
        /\ Decorated(Top(t1)) /\ Decorated(Top(t2))
        /\ calls[Top(t1)].decl = calls[Top(t2)].decl
        /\ calls[Top(t1)].target = "fn_db"
        /\ calls[Top(t1)].injected = HandleOf(Top(t1))
        /\ calls[Top(t2)].injected = HandleOf(Top(t2))
        /\ HandleOf(Top(t1)) # HandleOf(Top(t2))
        /\ Ops(HandleOf(Top(t1))) = <<"open">> /\ Ops(HandleOf(Top(t2))) = <<"open">>

\* C18: a with-block and a decorated call with the same provider and the same body
\* outcome (return or raise E) produce the same sequence of session events and the
\* same outcome for the caller.
C18_SameProtocol ==
    \A c1, c2 \in CallIds :
        (/\ calls[c1].kind = "with" /\ Decorated(c2)
         /\ calls[c1].pc = "over" /\ calls[c2].pc = "over"
         /\ calls[c1].body \in {"ret", "E"}
         /\ calls[c2].body = calls[c1].body
         /\ handles[HandleOf(c1)].provider = handles[HandleOf(c2)].provider) =>
            /\ Ops(HandleOf(c2)) = Ops(HandleOf(c1))
            /\ calls[c2].outcome = calls[c1].outcome

\* C19: when the body raised E and the rollback itself raises, close is still
\* performed on the handle and the caller observes E, not the failure of the
\* rollback.
C19_OriginalErrorSurvives ==
    \A c \in CallIds :
        (/\ Leaving(c)
         /\ calls[c].body = "E"
         /\ \E i \in 1..Len(events) :
                events[i].by = c /\ events[i].op = "rollback" /\ ~events[i].ok) =>
            /\ Count(HandleOf(c), "close") = 1
            /\ calls[c].exc = "E"

\* C20: in session_context a decorated method that declares exactly one
\* session-marked keyword-only parameter receives the handle through that parameter;
\* the instance attribute is neither checked nor bound.
C20_ParameterFirst ==
    variant = "session_context" =>
        \A c \in CallIds :
            LET tg == Targets[calls[c].target]
            IN  (/\ Decorated(c)
                 /\ tg.self /\ tg.marked = 1 /\ tg.sentinel /\ ~tg.strAnn
                 /\ calls[c].inst # NoInst
                 /\ HandleOf(c) # NoHandle
                 /\ calls[c].pc \notin {"enter", "assign"}) =>
                    /\ calls[c].pc # "bind"
                    /\ ~Bound(c)
                    /\ calls[c].invoked
                    /\ calls[c].injected = HandleOf(c)

----------------------------------------------------------------------------
(* C21 .. C30 *)

\* C21: a decorated call whose target has a session-marked parameter that is not
\* keyword-only with default Ellipsis raises an error; the handle is not injected and
\* the wrapped function is not invoked.
C21_SentinelRequired ==
    \A c \in CallIds :
        LET tg == Targets[calls[c].target]
        IN  (/\ Decorated(c)
             /\ tg.marked = 1 /\ ~tg.sentinel
             /\ HandleOf(c) # NoHandle
             /\ calls[c].pc \notin {"enter", "assign"}) =>
                /\ calls[c].exc # NoExc
                /\ ~calls[c].invoked
                /\ calls[c].injected = NoHandle
                /\ ~Bound(c)

\* C22: when the session marker is a string annotation the decorated call raises
\* UnsupportedAnnotationFormError (it is never taken for a missing marker), and the
\* call raises that error only when the string annotation could be the marker, that
\* is when the inspected function or instance has no concrete marker.
C22_StringAnnotation ==
    \A c \in CallIds :
        LET tg == Targets[calls[c].target]
            i == calls[c].inst
        IN  (/\ Decorated(c)
             /\ HandleOf(c) # NoHandle
             /\ calls[c].pc \notin {"enter", "assign"}) =>
                /\ (tg.strAnn /\ tg.marked = 0 /\ i = NoInst) =>
                       OwnError(c, "UnsupportedAnnotationFormError")
                /\ (tg.marked = 0 /\ ~tg.strAnn /\ i # NoInst /\ Instances[i].strAnn) =>
                       OwnError(c, "UnsupportedAnnotationFormError")
                /\ OwnError(c, "UnsupportedAnnotationFormError") =>
                       \/ tg.strAnn /\ tg.marked = 0
                       \/ i # NoInst /\ Instances[i].strAnn /\ Instances[i].marked = 0

\* C23: every session goes through open, then exactly one of commit and rollback,
\* then close: no session is committed and rolled back, committed or rolled back
\* after close, closed twice or operated on without having been opened.
C23_HandleLifecycle ==
    /\ \A h \in 1..Len(handles) :
           Ops(h) \in {<<"open">>, <<"open", "commit">>, <<"open", "rollback">>,
                       Committed, RolledBack}
    /\ \A i \in 1..Len(events) : events[i].h \in 1..Len(handles)

C23_Witness ==
    \E c1, c2 \in CallIds :
        /\ calls[c1].kind = "with" /\ calls[c1].pc = "over"
        /\ calls[c2].kind = "exit" /\ calls[c2].pc = "over"
        /\ calls[c2].mgr = calls[c1].mgr
        /\ calls[c1].body = "E"
        /\ Ops(HandleOf(c1)) = RolledBack

\* C24: when a nested attribute-bound call on the same instance is rejected with
\* BindingConflictError, the inner scope memorizes no instance and, while it exits and
\* after it has raised, the attribute still holds what the outer scope left there:
\* the outer scope's handle, still live.
C24_OuterBindingIntact ==
    \A c \in CallIds :
        LET p == calls[c].parent
            i == calls[c].inst
        IN  (/\ OwnError(c, "BindingConflictError")
             /\ p # 0
             /\ Decorated(p) /\ Bound(p) /\ calls[p].inst = i
             /\ ~calls[p].tampered
             /\ calls[c].pc \in {"exit", "finalize", "done"}) =>
                /\ ~Bound(c)
                /\ attr[i] = HandleOf(p)
                /\ Ops(HandleOf(p)) = <<"open">>
                /\ mgrs[calls[p].mgr].gen = "suspended"

C24_Witness ==
    \E c \in CallIds :
        /\ OwnError(c, "BindingConflictError")
        /\ calls[c].pc = "over"
        /\ Ops(HandleOf(c)) = RolledBack
        /\ calls[c].parent # 0
        /\ calls[calls[c].parent].pc = "body"
        /\ Instances[calls[c].inst].truthy
        /\ attr[calls[c].inst] = HandleOf(calls[c].parent)
        /\ Ops(HandleOf(calls[c].parent)) = <<"open">>

\* C25: the exit step removes the instance attribute whenever the scope manager
\* bound it, whatever the truth value of the instance, and leaves every attribute
\* alone when the scope manager bound none.
C25_ExitUnbinds ==
    [][\A t \in DOMAIN stacks :
          (At(t, "exit") /\ calls'[Top(t)].pc # "exit") =>
              LET i == mgrs[calls[Top(t)].mgr].instance
              IN  IF i # NoInst
                  THEN attr'[i] = AttrAbsent
                  ELSE attr' = attr
      ]_vars

\* C26: in session.py, a decorated method with a session-marked keyword-only
\* parameter called from the body of an attribute-bound decorated method on the same
\* instance raises no resolution error, receives its own handle, distinct from the
\* outer one, never changes the instance attribute, and is finalized while the outer
\* handle is still open.
C26_NestedParameterCall ==
    [][variant = "session" =>
          \A t \in DOMAIN stacks :
              LET c == Top(t)
                  p == calls[c].parent
                  tg == Targets[calls[c].target]
              IN  (/\ Active(t)
                   /\ Decorated(c)
                   /\ tg.self /\ tg.marked = 1 /\ tg.sentinel
                   /\ p # 0
                   /\ Decorated(p) /\ Bound(p) /\ calls[p].inst = calls[c].inst) =>
                      /\ attr' = attr
                      /\ ~OwnResolutionError(c)
                      /\ ~Bound(c)
                      /\ (HandleOf(c) # NoHandle /\ calls[c].pc \notin {"enter", "assign"}) =>
                             /\ calls[c].invoked
                             /\ calls[c].injected = HandleOf(c)
                             /\ HandleOf(c) # HandleOf(p)
                      /\ (HandleOf(c) # NoHandle /\ calls[c].pc = "done") =>
                             /\ Ops(HandleOf(c)) \in {Committed, RolledBack}
                             /\ Ops(HandleOf(p)) = <<"open">>
      ]_vars

C26_Witness ==
    \E c \in CallIds :
        /\ variant = "session"
        /\ Decorated(c) /\ calls[c].target = "m_db"
        /\ calls[c].pc = "over" /\ calls[c].outcome = "returned"
        /\ Ops(HandleOf(c)) = Committed
        /\ calls[c].parent # 0
        /\ Bound(calls[c].parent)
        /\ calls[calls[c].parent].inst = calls[c].inst
        /\ calls[calls[c].parent].pc = "body"
        /\ attr[calls[c].inst] = HandleOf(calls[c].parent)

\* C27: when _assign_session raises (AnnotationError, SentinelError,
\* DirectInjectionError, BindingConflictError, UnsupportedAnnotationFormError or the
\* NameError of an annotation that cannot be evaluated) the
\* wrapped function is never invoked, the handle the call had acquired is never
\* committed and is rolled back and closed exactly once before the call raises, the
\* call leaves no instance attribute set, and the caller observes the resolution
\* error.
C27_ResolutionFailureCleanup ==
    \A c \in CallIds :
        OwnResolutionError(c) =>
            /\ calls[c].body = NoExc
            /\ calls[c].injected = NoHandle
            /\ HandleOf(c) # NoHandle
            /\ OpenedBy(HandleOf(c)) = c
            /\ Count(HandleOf(c), "commit") = 0
            /\ ~Bound(c)
            /\ calls[c].inst \in Bindable => attr[calls[c].inst] # HandleOf(c)
            /\ Leaving(c) =>
                   /\ Ops(HandleOf(c)) = RolledBack
                   /\ \A i \in 1..Len(events) :
                          events[i].h = HandleOf(c) => events[i].by = c
            /\ calls[c].pc = "over" => calls[c].outcome = calls[c].raised

C27_Witness ==
    \E c \in CallIds :
        /\ OwnError(c, "SentinelError")
        /\ calls[c].pc = "over"
        /\ calls[c].outcome = "SentinelError"
        /\ Ops(HandleOf(c)) = RolledBack

\* C28: whenever the wrapped function is invoked through the parameter path, the
\* value in the session-marked parameter is the session this very call opened, also
\* when the caller supplied a value for that parameter.
C28_InjectedIsOwnHandle ==
    \A c \in CallIds :
        (Decorated(c) /\ calls[c].invoked /\ ~Bound(c)) =>
            /\ calls[c].injected # NoHandle
            /\ calls[c].injected = HandleOf(c)
            /\ handles[calls[c].injected].mgr = calls[c].mgr
            /\ OpenedBy(calls[c].injected) = c

C28_Witness ==
    \E c \in CallIds :
        /\ Decorated(c) /\ calls[c].kw = "falsy"
        /\ calls[c].invoked
        /\ calls[c].injected = HandleOf(c)
        /\ calls[c].pc = "over" /\ calls[c].outcome = "returned"

\* C29: with two threads calling attribute-bound methods on shared instances (and no
\* body touching the attribute), every call that entered its scope has, when it
\* returns or raises, its handle committed or rolled back and closed exactly once.
C29_SharedInstanceFinalized ==
    \A c \in CallIds :
        (/\ Decorated(c)
         /\ calls[c].target = "m_attr"
         /\ HandleOf(c) # NoHandle
         /\ Leaving(c)
         /\ \A c2 \in CallIds : ~calls[c2].tampered) =>
            Ops(HandleOf(c)) \in {Committed, RolledBack}

\* C30: with two threads calling attribute-bound methods on shared instances (and no
\* body touching the attribute), a running body finds on the instance attribute the
\* handle of its own scope, still open.
C30_BodySeesOwnHandle ==
    \A t \in DOMAIN stacks :
        (/\ At(t, "body")
         /\ Decorated(Top(t)) /\ Bound(Top(t))
         /\ \A c2 \in CallIds : ~calls[c2].tampered) =>
            /\ attr[calls[Top(t)].inst] = HandleOf(Top(t))
            /\ Ops(HandleOf(Top(t))) = <<"open">>

----------------------------------------------------------------------------
(* C31 .. C35 *)

\* C31: every decorated method call whose scope manager bound the session to the
\* instance has, when it is about to return or raise, its session committed or rolled
\* back and closed, whatever the body did to the attribute.
C31_FinalizedWhateverTheBodyDid ==
    \A c \in CallIds :
        (/\ Decorated(c)
         /\ Bound(c)
         /\ calls[c].invoked
         /\ calls[c].pc = "done") =>
            /\ Count(HandleOf(c), "commit") + Count(HandleOf(c), "rollback") = 1
            /\ Count(HandleOf(c), "close") = 1

\* a scope of its own opened by a with-block or by a parameter-injected decorated call
OwnScope(c) ==
    /\ calls[c].kind = "with" \/ (Decorated(c) /\ ~Bound(c) /\ calls[c].invoked)
    /\ HandleOf(c) # NoHandle
    /\ OpenedBy(HandleOf(c)) = c

\* a scope whose body runs: a with-block or a decorated call, attribute-bound or
\* parameter-injected
RunningScope(p) ==
    /\ calls[p].kind = "with" \/ (Decorated(p) /\ calls[p].invoked)
    /\ HandleOf(p) # NoHandle
    /\ OpenedBy(HandleOf(p)) = p

\* C32: for a scope (with-block or parameter-injected decorated call) opened inside
\* the body of another scope, every operation on the inner session precedes the
\* commit or rollback of the outer one, the inner session is finalized when the inner
\* scope is left, while the outer is still open, and an exception of the inner body
\* caught by the outer body rolls back the inner session only: the outer session is
\* committed when the outer body completes.
C32_NestedLifo ==
    \A c \in CallIds :
        LET p == calls[c].parent
        IN  (p # 0 /\ OwnScope(c) /\ RunningScope(p)) =>
                LET hc == HandleOf(c)
                    hp == HandleOf(p)
                IN  /\ hc # hp
                    /\ \A i, j \in 1..Len(events) :
                           (events[i].h = hc /\ events[j].h = hp
                                /\ events[j].op # "open") => i < j
                    /\ Leaving(c) => Ops(hc) = (IF calls[c].exc = NoExc THEN Committed
                                                ELSE RolledBack)
                    /\ (Leaving(c) /\ calls[p].pc = "body") => Ops(hp) = <<"open">>
                    /\ (calls[c].pc = "over" /\ Leaving(p) /\ calls[p].body = "ret") =>
                           Ops(hp) = Committed
                    /\ calls[p].pc = "over" => calls[c].pc = "over"

\* C33: the scope maker a decorator was built with is never entered and never
\* changed by the calls (generator, kwds, _instance, _instance_session_attr and
\* session are as built), and an instance memorized by a scope maker is the
\* instance of the one call that works on it.
C33_TemplateUnchanged ==
    /\ \A d \in 1..NDecls :
           mgrs[d] = NewMgr(scope_kwds(variant, DeclSeq[d].explicit))
    /\ \A m \in DOMAIN mgrs :
           mgrs[m].instance # NoInst =>
               /\ m > NDecls
               /\ \E c \in CallIds :
                      /\ Decorated(c) /\ calls[c].mgr = m
                      /\ calls[c].inst = mgrs[m].instance
                      /\ \A c2 \in CallIds \ {c} : calls[c2].mgr # m

C33_Witness ==
    \E c1, c2 \in CallIds :
        /\ c1 < c2
        /\ variant = "session_context"
        /\ Decorated(c1) /\ Decorated(c2)
        /\ calls[c1].decl = calls[c2].decl
        /\ calls[c1].explicit = KwAbsent
        /\ Bound(c1) /\ ~Bound(c2)
        /\ calls[c1].pc = "over" /\ calls[c2].pc = "over"
        /\ handles[HandleOf(c1)].provider = "E1"
        /\ OwnError(c2, "BindingConflictError")

\* C34: a session keeps the provider it was opened with: no step changes an existing
\* session, a reassignment of the default touches no session and no scope manager,
\* a scope manager keeps its session, every commit, rollback and close is applied to
\* the session of the scope manager that performs it, and a session opened after
\* the reassignment is opened on the explicit provider or on the new default.
C34_ProviderFixedAtEnter ==
    [][/\ Len(handles') >= Len(handles)
       /\ \A h \in 1..Len(handles) : handles'[h] = handles[h]
       /\ engine' # engine => (events' = events /\ mgrs' = mgrs)
       /\ \A m \in DOMAIN mgrs :
              mgrs[m].hid # NoHandle => mgrs'[m].hid = mgrs[m].hid
       /\ \A i \in (Len(events) + 1)..Len(events') :
              /\ events'[i].h \in 1..Len(handles')
              /\ events'[i].op # "open" =>
                     /\ events'[i].h \in 1..Len(handles)
                     /\ mgrs[handles[events'[i].h].mgr].hid = events'[i].h
              /\ events'[i].op = "open" =>
                     /\ events'[i].h = Len(handles') /\ Len(handles') = Len(handles) + 1
                     /\ handles'[events'[i].h].provider \in Engines
                     /\ handles'[events'[i].h].provider \in
                            {engine} \cup {calls[c].explicit : c \in CallIds}
      ]_vars

C34_Witness ==
    \E c1, c2 \in CallIds :
        /\ calls[c2].parent = c1
        /\ calls[c1].explicit \notin Engines
        /\ handles[HandleOf(c1)].provider = "E1"
        /\ EnterFailed(c2) /\ calls[c2].pc = "over"
        /\ engine = NoEngine
        /\ calls[c1].pc = "over"
        /\ Ops(HandleOf(c1)) = Committed

\* C35: db_session applied to a function with exactly one Session-annotated
\* parameter returns a wrapper, it raises RuntimeError only for a function whose
\* number of Session-annotated parameters is not one, and every wrapper call passes
\* an open session as a Session-annotated parameter and returns the function's result
\* after the session was committed and closed.
C35_DbSessionDecorates ==
    /\ \A f \in DOMAIN BonusTargets :
           LET n == Cardinality(BonusTargets[f] \ {"return"})
           IN  bonus.decorated[f] # NotDecorated =>
                   /\ n = 1 => bonus.decorated[f] = "wrapper"
                   /\ bonus.decorated[f] = "RuntimeError" => n # 1
    /\ \A i \in 1..Len(bonus.runs) :
           LET r == bonus.runs[i]
           IN  Cardinality(BonusTargets[r.f] \ {"return"}) = 1 =>
                   /\ r.pc = "body" =>
                          /\ r.injected \in BonusTargets[r.f] \ {"return"}
                          /\ bonus.sessions[r.session] = <<"open">>
                   /\ r.pc = "over" =>
                          /\ r.outcome = IF r.body = "ret" THEN "returned" ELSE "E"
                          /\ bonus.sessions[r.session] =
                                 IF r.body = "ret" THEN Committed ELSE RolledBack

====
